---------------------------- MODULE Spec2Model ----------------------------
(***************************************************************************)
(* Session walk and question/answer selection of the chat QA pipeline:     *)
(* ChatQAProcessor._process_qa_pairs, _merge_session_messages,             *)
(* _select_representative_question, _find_matching_answer                  *)
(* (chat_qa_processor.py) and the scoring functions of DataCleaner         *)
(* (data_cleaner.py).                                                      *)
(*                                                                         *)
(* Texts are sequences of Unicode code points, so that substring tests,    *)
(* case folding, whitespace splitting and stripping are computed as the    *)
(* Python code computes them.  Python floats are modelled as exact         *)
(* rationals <<numerator, denominator>> in lowest terms.                   *)
(***************************************************************************)
EXTENDS Integers, Sequences, FiniteSets, TLC

VARIABLES
  hasSessionCol,            \* whether the frame has the session-id column
  df,                       \* rows of the frame read by iterrows() so far
  pc,                       \* "loop" | "done" (walk) ; "idle" | "called" (selector calls)
  qa_pairs,                 \* _process_qa_pairs: result list
  current_customer,         \* _process_qa_pairs locals
  current_service,
  current_question,
  current_session_id,
  current_session_messages,
  sessionStart,             \* history: index in df of the first row of the open session
  closed,                   \* history: one record per finalized session
  call                      \* the selector function call under examination

vars == <<hasSessionCol, df, pc, qa_pairs, current_customer, current_service,
          current_question, current_session_id, current_session_messages,
          sessionStart, closed, call>>

walkVars == <<hasSessionCol, df, qa_pairs, current_customer, current_service,
              current_question, current_session_id, current_session_messages,
              sessionStart, closed>>

-----------------------------------------------------------------------------
(* Python values *)

\* Python None where a str is expected: a value that is no text.
None == <<-1>>

\* pandas.NaT: the value a malformed or missing timestamp is coerced to
\* (process_chat_records, pd.to_datetime(..., errors='coerce')).
NaT == [ok |-> FALSE, min |-> 0]

\* A well-formed timestamp, in minutes.
Timestamp(m) == [ok |-> TRUE, min |-> m]

\* x < y on timestamps; every comparison with NaT is False.
TimeLess(x, y) == x.ok /\ y.ok /\ x.min < y.min

-----------------------------------------------------------------------------
(* Exact rationals *)

RECURSIVE Gcd(_, _)
Gcd(a, b) == IF b = 0 THEN a ELSE Gcd(b, a % b)

\* The outcome of a division by zero (Python raises ZeroDivisionError): a
\* value with denominator 0, which every later operation hands on.
ZeroDivisionError == <<1, 0>>

\* n / d
Rat(n, d) ==
  IF d = 0 THEN ZeroDivisionError
  ELSE IF n = 0 THEN <<0, 1>>
       ELSE LET g == Gcd(n, d) IN <<n \div g, d \div g>>
RZero == Rat(0, 1)
RAdd(x, y) == Rat(x[1] * y[2] + y[1] * x[2], x[2] * y[2])
RMul(x, y) == Rat(x[1] * y[1], x[2] * y[2])
RLess(x, y) == x[1] * y[2] < y[1] * x[2]
RLeq(x, y) == x[1] * y[2] <= y[1] * x[2]

-----------------------------------------------------------------------------
(* str methods *)

\* Code points for which str.isspace() holds (str.split() and str.strip()
\* without argument use them).
Whitespace == {9, 10, 11, 12, 13, 28, 29, 30, 31, 32, 133, 160, 5760, 8232, 8233,
               8239, 8287, 12288} \cup (8192..8202)

\* str.lower(), on the letters A-Z (the other code points used here have no
\* lower-case mapping).
lower(text) == [i \in 1..Len(text) |-> IF text[i] \in 65..90 THEN text[i] + 32 ELSE text[i]]

\* keyword in text
Contains(text, keyword) ==
  \E i \in 0..(Len(text) - Len(keyword)) : SubSeq(text, i + 1, i + Len(keyword)) = keyword

\* text.startswith(prefix)
startswith(text, prefix) ==
  Len(prefix) <= Len(text) /\ SubSeq(text, 1, Len(prefix)) = prefix

RECURSIVE lstrip(_)
lstrip(text) ==
  IF text # <<>> /\ Head(text) \in Whitespace THEN lstrip(Tail(text)) ELSE text

RECURSIVE rstrip(_)
rstrip(text) ==
  IF text # <<>> /\ text[Len(text)] \in Whitespace
  THEN rstrip(SubSeq(text, 1, Len(text) - 1)) ELSE text

\* text.strip()
strip(text) == rstrip(lstrip(text))

\* set(text.split()): the maximal runs of non-whitespace code points.
split(text) ==
  {SubSeq(text, i, j) : <<i, j>> \in
     {p \in (1..Len(text)) \X (1..Len(text)) :
        /\ p[1] <= p[2]
        /\ \A k \in p[1]..p[2] : text[k] \notin Whitespace
        /\ (p[1] = 1 \/ text[p[1] - 1] \in Whitespace)
        /\ (p[2] = Len(text) \/ text[p[2] + 1] \in Whitespace)}}

\* re.search(pattern, text) for a pattern that is an alternation of literals.
re_search(pattern, text) == \E literal \in pattern : Contains(text, literal)

-----------------------------------------------------------------------------
(* DataCleaner tables *)

\* extract_tags: the tag_rules dictionary. Every pattern is an alternation of
\* literals; each literal is written as the sequence of its code points.
tag_rules ==
  "payment" :> {<<25903,20184>>, <<20184,27454>>, <<36864,27454>>, <<36716,36134>>, <<20313,39069>>, <<36153,29992>>, <<25910,36153>>, <<20215,26684>>, <<37329,39069>>, <<25903,20184,26041,24335>>, <<25903,20184,23453>>, <<24494,20449,25903,20184>>}
  @@ "logistics" :> {<<24555,36882>>, <<29289,27969>>, <<37197,36865>>, <<21457,36135>>, <<25910,36135>>, <<36816,36755>>, <<36865,36798>>, <<27966,36865>>, <<21253,35065>>, <<24555,36882,36153>>, <<36816,36153>>}
  @@ "account" :> {<<30331,24405>>, <<27880,20876>>, <<23494,30721>>, <<36134,21495>>, <<35748,35777>>, <<23454,21517>>, <<36523,20221>>, <<32465,23450>>, <<35299,32465>>, <<27880,38144>>, <<25346,22833>>, <<25214,22238>>}
  @@ "product" :> {<<21830,21697>>, <<20135,21697>>, <<20215,26684>>, <<36136,37327>>, <<35268,26684>>, <<22411,21495>>, <<21697,29260>>, <<24211,23384>>, <<32570,36135>>, <<26029,36135>>, <<19979,26550>>, <<19978,26550>>}
  @@ "order" :> {<<35746,21333>>, <<19979,21333>>, <<21462,28040>>, <<20462,25913>>, <<26597,35810>>, <<36319,36394>>, <<29366,24577>>, <<36827,24230>>, <<30830,35748>>, <<36864,27454>>, <<36864,36135>>}
  @@ "service" :> {<<26381,21153>>, <<23458,26381>>, <<21806,21518>>, <<32500,20462>>, <<20445,20462>>, <<20445,20859>>, <<23433,35013>>, <<35843,35797>>, <<22521,35757>>, <<25351,23548>>, <<21672,35810>>}
  @@ "system" :> {<<31995,32479>>, <<36719,20214>>, <<31243,24207>>, <<24212,29992>>, <<65,80,80>>, <<32593,39029>>, <<32593,31449>>, <<32593,32476>>, <<36830,25509>>, <<21345,39039>>, <<23849,28291>>, <<38169,35823>>}
  @@ "security" :> {<<23433,20840>>, <<38544,31169>>, <<20445,25252>>, <<27844,38706>>, <<21152,23494>>, <<35299,23494>>, <<25480,26435>>, <<26435,38480>>, <<39564,35777>>, <<35748,35777>>, <<23454,21517>>}
  @@ "promotion" :> {<<20248,24800>>, <<27963,21160>>, <<20419,38144>>, <<25240,25187>>, <<28385,20943>>, <<21048>>, <<32418,21253>>, <<31215,20998>>, <<20250,21592>>, <<86,73,80>>, <<29305,26435>>}
  @@ "complaint" :> {<<25237,35785>>, <<24314,35758>>, <<21453,39304>>, <<24847,35265>>, <<20030,25253>>, <<32500,26435>>, <<32416,32439>>, <<20105,35758>>, <<38382,39064>>, <<19981,28385>>, <<24046,35780>>}

\* extract_tags: the four patterns tested after the dictionary loop.
special_tag_rules ==
  "etc_business" :> {<<101,116,99>>, <<39640,36895,20844,36335>>, <<36890,34892,36153>>, <<25910,36153,31449>>, <<101,116,99,21345>>, <<101,116,99,35774,22791>>}
  @@ "vehicle" :> {<<36710,29260>>, <<36710,36742>>, <<27773,36710>>, <<39550,29031>>, <<39550,39542,35777>>, <<34892,39542,35777>>, <<36829,31456>>, <<24180,26816>>, <<20445,38505>>}
  @@ "invoice" :> {<<21457,31080>>, <<31080,25454>>, <<25910,25454>>, <<25253,38144>>, <<20973,35777>>, <<21333,25454>>}
  @@ "urgent" :> {<<32039,24613>>, <<24613>>, <<24555>>, <<31435,21363>>, <<39532,19978>>, <<23613,24555>>, <<21152,24613>>, <<21152,24613,22788,29702>>}

\* DataCleaner.context_keywords: category -> keywords (matched case-sensitively).
context_keywords ==
  "payment" :> {<<25903,20184>>, <<20184,27454>>, <<36864,27454>>, <<36716,36134>>, <<20313,39069>>, <<36153,29992>>, <<25910,36153>>, <<20215,26684>>, <<37329,39069>>, <<25903,20184,26041,24335>>, <<25903,20184,23453>>, <<24494,20449,25903,20184>>}
  @@ "logistics" :> {<<24555,36882>>, <<29289,27969>>, <<37197,36865>>, <<21457,36135>>, <<25910,36135>>, <<36816,36755>>, <<36865,36798>>, <<27966,36865>>, <<21253,35065>>, <<24555,36882,36153>>, <<36816,36153>>}
  @@ "account" :> {<<30331,24405>>, <<27880,20876>>, <<23494,30721>>, <<36134,21495>>, <<35748,35777>>, <<23454,21517>>, <<36523,20221>>, <<32465,23450>>, <<35299,32465>>, <<27880,38144>>, <<25346,22833>>, <<25214,22238>>}
  @@ "product" :> {<<21830,21697>>, <<20135,21697>>, <<20215,26684>>, <<36136,37327>>, <<35268,26684>>, <<22411,21495>>, <<21697,29260>>, <<24211,23384>>, <<32570,36135>>, <<26029,36135>>, <<19979,26550>>, <<19978,26550>>}
  @@ "order" :> {<<35746,21333>>, <<19979,21333>>, <<21462,28040>>, <<20462,25913>>, <<26597,35810>>, <<36319,36394>>, <<29366,24577>>, <<36827,24230>>, <<30830,35748>>, <<36864,27454>>, <<36864,36135>>}
  @@ "service" :> {<<26381,21153>>, <<23458,26381>>, <<21806,21518>>, <<32500,20462>>, <<20445,20462>>, <<20445,20859>>, <<23433,35013>>, <<35843,35797>>, <<22521,35757>>, <<25351,23548>>, <<21672,35810>>}
  @@ "system" :> {<<31995,32479>>, <<36719,20214>>, <<31243,24207>>, <<24212,29992>>, <<65,80,80>>, <<32593,39029>>, <<32593,31449>>, <<32593,32476>>, <<36830,25509>>, <<21345,39039>>, <<23849,28291>>, <<38169,35823>>}
  @@ "security" :> {<<23433,20840>>, <<38544,31169>>, <<20445,25252>>, <<27844,38706>>, <<21152,23494>>, <<35299,23494>>, <<25480,26435>>, <<26435,38480>>, <<39564,35777>>, <<35748,35777>>, <<23454,21517>>}
  @@ "promotion" :> {<<20248,24800>>, <<27963,21160>>, <<20419,38144>>, <<25240,25187>>, <<28385,20943>>, <<21048>>, <<32418,21253>>, <<31215,20998>>, <<20250,21592>>, <<86,73,80>>, <<29305,26435>>}
  @@ "complaint" :> {<<25237,35785>>, <<24314,35758>>, <<21453,39304>>, <<24847,35265>>, <<20030,25253>>, <<32500,26435>>, <<32416,32439>>, <<20105,35758>>, <<38382,39064>>, <<19981,28385>>, <<24046,35780>>}
  @@ "etc_business" :> {<<101,116,99>>, <<39640,36895,20844,36335>>, <<36890,34892,36153>>, <<25910,36153,31449>>, <<101,116,99,21345>>, <<101,116,99,35774,22791>>}
  @@ "vehicle" :> {<<36710,29260>>, <<36710,36742>>, <<27773,36710>>, <<39550,29031>>, <<39550,39542,35777>>, <<34892,39542,35777>>, <<36829,31456>>, <<24180,26816>>, <<20445,38505>>}
  @@ "invoice" :> {<<21457,31080>>, <<31080,25454>>, <<25910,25454>>, <<25253,38144>>, <<20973,35777>>, <<21333,25454>>}
  @@ "urgent" :> {<<32039,24613>>, <<24613>>, <<24555>>, <<31435,21363>>, <<39532,19978>>, <<23613,24555>>, <<21152,24613>>, <<21152,24613,22788,29702>>}

\* DataCleaner.importance_weights: word -> weight, weights in tenths.
importance_weights ==
  <<101,116,99>> :> 20
  @@ <<25903,20184>> :> 18
  @@ <<36864,27454>> :> 18
  @@ <<36134,25143>> :> 17
  @@ <<23494,30721>> :> 17
  @@ <<23433,20840>> :> 16
  @@ <<32039,24613>> :> 16
  @@ <<25925,38556>> :> 15
  @@ <<38169,35823>> :> 15
  @@ <<38382,39064>> :> 14
  @@ <<24322,24120>> :> 14
  @@ <<26080,27861>> :> 14
  @@ <<19981,33021>> :> 14
  @@ <<24590,20040,21150>> :> 13
  @@ <<22914,20309>> :> 13
  @@ <<24590,20040>> :> 13
  @@ <<20026,20160,20040>> :> 13
  @@ <<21407,22240>> :> 13
  @@ <<35299,20915>> :> 13

\* DataCleaner.keyword_weights: category -> weight, weights in tenths. No
\* method of the class reads this table.
keyword_weights ==
  "payment" :> 12
  @@ "logistics" :> 11
  @@ "account" :> 13
  @@ "product" :> 10
  @@ "order" :> 12
  @@ "service" :> 11
  @@ "system" :> 10
  @@ "security" :> 13
  @@ "promotion" :> 8
  @@ "complaint" :> 12
  @@ "etc_business" :> 14
  @@ "vehicle" :> 12
  @@ "invoice" :> 11
  @@ "urgent" :> 15

-----------------------------------------------------------------------------
(* DataCleaner scoring *)

\* extract_tags(text): the set of tags (list(set(tags))).
extract_tags(text) ==
  LET t == lower(text) IN
    {tag \in DOMAIN tag_rules : re_search(tag_rules[tag], t)}
    \cup {tag \in DOMAIN special_tag_rules : re_search(special_tag_rules[tag], t)}

Max(a, b) == IF a >= b THEN a ELSE b

\* jaccard = intersection / union
jaccard(words1, words2) ==
  Rat(Cardinality(words1 \cap words2), Cardinality(words1 \cup words2))

\* Mutant of keyword_similarity: the quotient is taken whether or not a word
\* of the table was found.
keyword_similarity_unguarded(words1, words2) ==
  LET weighted1 == {w \in words1 : w \in DOMAIN importance_weights}
      weighted2 == {w \in words2 : w \in DOMAIN importance_weights}
  IN Rat(Cardinality(weighted1 \cap words2) + Cardinality(weighted2 \cap words1),
         Cardinality(weighted1) + Cardinality(weighted2))

\* keyword_similarity: the two loops over words1 and words2 and the quotient.
keyword_similarity(words1, words2) ==
  LET weighted1 == {w \in words1 : w \in DOMAIN importance_weights}
      weighted2 == {w \in words2 : w \in DOMAIN importance_weights}
      total_keywords == Cardinality(weighted1) + Cardinality(weighted2)
      keyword_matches == Cardinality(weighted1 \cap words2)
                         + Cardinality(weighted2 \cap words1)
  IN IF total_keywords > 0 THEN Rat(keyword_matches, total_keywords) ELSE RZero

\* Mutant of word_similarity: the two weights are exchanged.
word_similarity_weights_swapped(words1, words2) ==
  IF Cardinality(words1 \cup words2) = 0 THEN RZero
  ELSE RAdd(RMul(Rat(4, 10), jaccard(words1, words2)),
            RMul(Rat(6, 10), keyword_similarity(words1, words2)))

\* calculate_semantic_similarity once words1 and words2 are computed.
word_similarity(words1, words2) ==
  IF Cardinality(words1 \cup words2) = 0 THEN RZero
  ELSE RAdd(RMul(Rat(6, 10), jaccard(words1, words2)),
            RMul(Rat(4, 10), keyword_similarity(words1, words2)))

\* calculate_semantic_similarity(text1, text2)
calculate_semantic_similarity(text1, text2) ==
  IF text1 = <<>> \/ text2 = <<>> THEN RZero
  ELSE word_similarity(split(lower(text1)), split(lower(text2)))

\* tag_match_score, given the tags of the question and of the answer
tag_match_score(question_tags, answer_tags) ==
  LET matching_tags == question_tags \cap answer_tags
  IN IF question_tags # {} \/ answer_tags # {}
     THEN Rat(Cardinality(matching_tags),
              Max(Cardinality(question_tags), Cardinality(answer_tags)))
     ELSE RZero

\* The categories of context_keywords that have a keyword in the text
\* (question_keywords for the question, answer_keywords for the answer).
keyword_categories(text) ==
  {category \in DOMAIN context_keywords :
     \E keyword \in context_keywords[category] : Contains(text, keyword)}

\* keyword_match_score, given the categories of the question and of the answer
keyword_match_score(question_keywords, answer_keywords) ==
  LET matching_keywords == question_keywords \cap answer_keywords
  IN IF question_keywords # {} \/ answer_keywords # {}
     THEN Rat(Cardinality(matching_keywords),
              Max(Cardinality(question_keywords), Cardinality(answer_keywords)))
     ELSE RZero

\* calculate_context_match(question, answer)
calculate_context_match(question, answer) ==
  RAdd(RAdd(RMul(Rat(4, 10), tag_match_score(extract_tags(question), extract_tags(answer))),
            RMul(Rat(3, 10), keyword_match_score(keyword_categories(question),
                                                 keyword_categories(answer)))),
       RMul(Rat(3, 10), calculate_semantic_similarity(question, answer)))

-----------------------------------------------------------------------------
(* DataCleaner.clean_text *)

\* [一-龥], [a-zA-Z] and [0-9]
Chinese == 19968..40869
Letters == (65..90) \cup (97..122)
Digits == 48..57

\* The punctuation the character filter keeps: the full-width comma, full
\* stop, exclamation and question mark, enumeration comma, colon and
\* semicolon, the ASCII double quote, and the full-width brackets. (The two
\* adjacent string literals of the source make the pattern hold the double
\* quote and no single quote.)
KeptPunctuation == {65292, 12290, 65281, 65311, 12289, 65306, 65307, 34, 65288, 65289, 12304, 12305, 12298, 12299}

\* The class [\s\.,<U+FF0C><U+3002>!<U+FF01>?<U+FF1F>] without \s
OnlyPunctuation == {46, 44, 65292, 12290, 33, 65281, 63, 65311}

\* [\U0001F300-\U0001F9FF]
Emoji == 127744..129535

\* text.encode('utf-8', errors='ignore').decode('utf-8'): lone surrogates
\* are dropped.
utf8_roundtrip(text) == SelectSeq(text, LAMBDA c : c \notin 55296..57343)

\* re.sub(open + '.*?' + close, '', text): each opening character is removed
\* together with the text up to the nearest closing character, if no line
\* break lies between them.
RECURSIVE remove_delimited(_, _, _)
remove_delimited(text, open, close) ==
  IF text = <<>> THEN <<>>
  ELSE LET closing == {j \in 2..Len(text) : text[j] = close}
           nearest == CHOOSE j \in closing : \A i \in closing : j <= i
       IN IF Head(text) = open /\ closing # {} /\ \A k \in 2..(nearest - 1) : text[k] # 10
          THEN remove_delimited(SubSeq(text, nearest + 1, Len(text)), open, close)
          ELSE <<Head(text)>> \o remove_delimited(Tail(text), open, close)

\* re.sub(r'[^...]', '', text): only Chinese characters, letters, digits, the
\* kept punctuation and white space remain.
keep_allowed(text) ==
  SelectSeq(text, LAMBDA c : \/ c \in Chinese \/ c \in Letters \/ c \in Digits
                             \/ c \in KeptPunctuation \/ c \in Whitespace)

\* re.sub(r'(.)\1{2,}', r'\1\1', text): a run of three or more equal
\* characters (other than line breaks) becomes two.
RECURSIVE collapse_repeats(_)
collapse_repeats(text) ==
  IF Len(text) < 3 THEN text
  ELSE IF text[1] # 10 /\ text[2] = text[1] /\ text[3] = text[1]
       THEN LET after == {j \in 1..Len(text) : text[j] # text[1]}
                rest == IF after = {} THEN <<>>
                        ELSE SubSeq(text, CHOOSE j \in after : \A i \in after : j <= i,
                                    Len(text))
            IN <<text[1], text[1]>> \o collapse_repeats(rest)
       ELSE <<text[1]>> \o collapse_repeats(Tail(text))

\* What the masking patterns need in the filtered text: the honorifics of the
\* name pattern, the province character of the address pattern, the literals
\* of the WeChat and QQ patterns, and the year character of the date pattern.
\* (The e-mail and URL patterns need '@' and '://', which the filter removed.)
MaskTriggers ==
  {<<20808,29983>>, <<22899,22763>>, <<23567,22992>>, <<32769,24072>>, <<32463,29702>>,
   <<20027,20219>>, <<21307,29983>>, <<25252,22763>>, <<35686,23448>>, <<21516,24535>>,
   <<30465>>, <<24494,20449,21495>>, <<81,81>>, <<24180>>}

\* The province characters a licence plate starts with.
PlateProvinces ==
  {20140, 27941, 27818, 28189, 20864, 35947, 20113, 36797, 40657, 28248, 30358, 40065, 26032, 33487, 27993, 36195, 37122, 26690, 29976, 26187, 33945, 38485, 21513, 38397, 36149, 31908, 38738, 34255, 24029, 23425, 29756, 20351, 39046}

\* Whether one of the masking patterns may match: they need seven digits in a
\* row (identity card, phone, landline and bank card numbers), a province
\* character before a capital letter (licence plate), or one of MaskTriggers.
may_need_masking(text) ==
  \/ \E i \in 1..(Len(text) - 6) : \A k \in i..(i + 6) : text[k] \in Digits
  \/ \E i \in 1..(Len(text) - 1) : text[i] \in PlateProvinces /\ text[i + 1] \in 65..90
  \/ \E trigger \in MaskTriggers : Contains(text, trigger)

\* The twelve masking substitutions, on the texts in which none of their
\* patterns can match: they leave such a text as it is. The model has no
\* other raw text.
mask_sensitive(text) == CASE ~may_need_masking(text) -> text

\* re.match(r'^[...]+$', text) for a class that includes \s, given as the
\* list of the sets it is the union of: the text is not empty and has characters of the
\* class only.
only_of(text, class) ==
  text # <<>> /\ \A i \in 1..Len(text) : \E k \in 1..Len(class) : text[i] \in class[k]

\* re.sub(r'^[...]+$', '', text) for a class that includes \s: a non-empty
\* text made of characters of the class only becomes empty.
remove_if_only(text, class) == IF only_of(text, class) THEN <<>> ELSE text

\* The alternations of the status-message patterns.
HandlingVerbs ==
  {<<22788,29702>>, <<26597,35810>>, <<26680,23454>>, <<21150,29702>>, <<23457,26680>>,
   <<36716,25509>>, <<32852,31995>>, <<21327,35843>>, <<36319,36827>>, <<21453,39304>>,
   <<21319,32423>>, <<21152,24613>>, <<20248,20808>>, <<23433,25490>>, <<36716,27966>>,
   <<36716,21150>>, <<36716,36798>>, <<36716,21578>>, <<36716,36848>>, <<36716,25253>>,
   <<36716,21576>>, <<36716,36882>>, <<36716,36865>>}

CooperationVerbs ==
  {<<36716,25509>>, <<21319,32423>>, <<21453,39304>>, <<26680,23454>>, <<30830,35748>>,
   <<39564,35777>>, <<23457,26680>>, <<23457,25209>>, <<22788,29702>>, <<36319,36827>>,
   <<21327,35843>>, <<27807,36890>>, <<32852,31995>>, <<23545,25509>>, <<20132,25509>>,
   <<36716,20132>>, <<31227,20132>>, <<36716,20171>>, <<36716,27966>>, <<36716,21150>>,
   <<36716,36798>>, <<36716,21578>>, <<36716,36848>>, <<36716,25253>>, <<36716,21576>>,
   <<36716,36882>>, <<36716,36865>>}

LoadingVerbs ==
  {<<21152,36733>>, <<21516,27493>>, <<19979,36733>>, <<19978,20256>>, <<36830,25509>>,
   <<22788,29702>>, <<26597,35810>>, <<26680,23454>>, <<21150,29702>>, <<23457,26680>>,
   <<36716,25509>>, <<32852,31995>>, <<21327,35843>>, <<36319,36827>>, <<21453,39304>>,
   <<21319,32423>>, <<21152,24613>>, <<20248,20808>>, <<23433,25490>>, <<36716,27966>>,
   <<36716,21150>>, <<36716,36798>>, <<36716,21578>>, <<36716,36848>>, <<36716,25253>>,
   <<36716,21576>>, <<36716,36882>>, <<36716,36865>>}

DoneStates ==
  {<<35835>>, <<36865,36798>>, <<21457,36865>>, <<22788,29702>>, <<23436,25104>>, <<25104,21151>>,
   <<22833,36133>>, <<21462,28040>>, <<21024,38500>>, <<28165,31354>>, <<32622,39030>>,
   <<38745,38899>>, <<23631,34109>>, <<25289,40657>>, <<20030,25253>>, <<20851,27880>>,
   <<21462,28040,20851,27880>>, <<28857,36190>>, <<25910,34255>>}

\* The patterns 3.1 to 3.9 that remove system messages and automatic replies:
\* '^' head (?:option)? (?:word|...) '.*$'. Pattern 3.10 has the head and the
\* words of 3.6, which has emptied every text 3.10 matches.
status_patterns ==
  << [head |-> <<27491,22312>>, options |-> {<<>>, <<20026,24744>>},
     words |-> HandlingVerbs],
     [head |-> <<35831,31245>>, options |-> {<<>>},
     words |-> {<<31561>>, <<20505>>, <<21518>>, <<24453>>}],
     [head |-> <<24863,35874>>, options |-> {<<>>, <<24744,30340>>},
     words |-> {<<21672,35810>>, <<25903,25345>>, <<29702,35299>>, <<37197,21512>>, <<32784,24515,31561,24453>>}],
     [head |-> <<24744,22909>>, options |-> {<<>>, <<24456,39640,20852>>, <<38750,24120,39640,20852>>, <<65292>>, <<65292,24456,39640,20852>>, <<65292,38750,24120,39640,20852>>, <<44>>, <<44,24456,39640,20852>>, <<44,38750,24120,39640,20852>>},
     words |-> {<<20026,24744,26381,21153>>, <<20026,24744,25552,20379,24110,21161>>}],
     [head |-> <<38656,35201>>, options |-> {<<>>},
     words |-> CooperationVerbs],
     [head |-> <<27491,22312,20026,24744>>, options |-> {<<>>},
     words |-> HandlingVerbs],
     [head |-> <<31995,32479>>, options |-> {<<>>, <<27491,22312>>, <<27491,22312,20026,24744>>},
     words |-> HandlingVerbs],
     [head |-> <<27491,22312>>, options |-> {<<>>},
     words |-> LoadingVerbs],
     [head |-> <<24050>>, options |-> {<<>>},
     words |-> DoneStates] >>

\* re.sub(r'^head(?:...)?(?:...).*$', '', text): '.' matches no line break and
\* '$' matches at the end and before a final line break.
remove_status(text, pattern) ==
  IF \E option \in pattern.options, word \in pattern.words :
       startswith(text, pattern.head \o option \o word)
  THEN LET breaks == {i \in 1..Len(text) : text[i] = 10}
       IN IF breaks = {} THEN <<>>
          ELSE IF breaks = {Len(text)} THEN <<10>> ELSE text
  ELSE text

\* The status patterns applied one after the other.
RECURSIVE remove_statuses(_, _)
remove_statuses(text, k) ==
  IF k > Len(status_patterns) THEN text
  ELSE remove_statuses(remove_status(text, status_patterns[k]), k + 1)

\* re.sub(r'([...])\1+', r'\1', text), where the second string literal is not
\* a raw string: its \1 is the character U+0001, so what is removed is a run of
\* U+0001 after a punctuation character.
RECURSIVE remove_after_punctuation(_)
remove_after_punctuation(text) ==
  IF Len(text) < 2 THEN text
  ELSE IF text[1] \in KeptPunctuation /\ text[2] = 1
       THEN remove_after_punctuation(<<text[1]>> \o SubSeq(text, 3, Len(text)))
       ELSE <<text[1]>> \o remove_after_punctuation(Tail(text))

\* re.sub(r'\s+', ' ', text)
RECURSIVE collapse_whitespace(_)
collapse_whitespace(text) ==
  IF text = <<>> THEN <<>>
  ELSE IF Head(text) \in Whitespace
       THEN <<32>> \o collapse_whitespace(lstrip(text))
       ELSE <<Head(text)>> \o collapse_whitespace(Tail(text))

\* The twelve text.replace calls: full-width punctuation to ASCII.
standard_punctuation ==
  65292 :> 44 @@ 12290 :> 46 @@ 65281 :> 33 @@ 65311 :> 63
  @@ 65306 :> 58 @@ 65307 :> 59 @@ 65288 :> 40 @@ 65289 :> 41
  @@ 12304 :> 91 @@ 12305 :> 93 @@ 12298 :> 60 @@ 12299 :> 62

standardize_punctuation(text) ==
  [i \in 1..Len(text) |-> IF text[i] \in DOMAIN standard_punctuation
                          THEN standard_punctuation[text[i]] ELSE text[i]]

\* clean_text up to the masking: the tags and the characters that are removed.
remove_tags_and_characters(text) ==
  collapse_repeats(keep_allowed(
    remove_delimited(remove_delimited(utf8_roundtrip(text), 91, 93), 60, 62)))

\* clean_text, "remove invalid content" 1 to 3: texts of punctuation only, of
\* letters and digits only, and status messages.
remove_invalid_content(text) ==
  remove_statuses(
    remove_if_only(remove_if_only(text, <<Whitespace, OnlyPunctuation>>),
                   <<Letters, Digits, Whitespace>>), 1)

\* clean_text, "remove other invalid content" 4.1 to 4.5.
remove_other_invalid_content(text) ==
  remove_if_only(remove_if_only(remove_if_only(remove_if_only(remove_if_only(text,
    <<Emoji, Whitespace>>),
    <<Digits, Whitespace, OnlyPunctuation>>),
    <<Letters, Whitespace, OnlyPunctuation>>),
    <<Whitespace, KeptPunctuation>>),
    <<Whitespace>>)

\* clean_text(text); a value that is not a str (None here, NaN in the frame)
\* gives the empty text.
clean_text(text) ==
  IF text = None THEN <<>>
  ELSE strip(collapse_whitespace(standardize_punctuation(collapse_whitespace(
         remove_after_punctuation(remove_other_invalid_content(remove_invalid_content(
           mask_sensitive(remove_tags_and_characters(text)))))))))

-----------------------------------------------------------------------------
(* DataCleaner.is_valid_message *)

\* DataCleaner.test_keywords and DataCleaner.forbidden_words
test_keywords == {<<116,101,115,116>>, <<27979,35797>>, <<27979,35797,25968,25454>>, <<27979,35797,29992,20363>>, <<27979,35797,29615,22659>>}

forbidden_words == {<<20667,36924>>, <<20182,22920,30340>>, <<25805>>, <<28378>>, <<30333,30196>>, <<31528,34507>>}

\* The literals of the system-message pattern and of the automatic-reply pattern.
system_message_words == {<<31995,32479>>, <<25552,31034>>, <<36890,30693>>, <<20844,21578>>, <<28040,24687>>, <<25552,37266>>}

auto_reply_words == {<<24744,22909>>, <<24863,35874>>, <<35874,35874>>, <<20877,35265>>, <<27426,36814>>, <<23458,26381>>}

\* is_valid_message(text)
is_valid_message(text) ==
  /\ text # None
  /\ Len(strip(text)) >= 3
  /\ ~\E keyword \in test_keywords : Contains(lower(text), keyword)
  /\ ~\E word \in forbidden_words : Contains(text, word)
  /\ ~only_of(text, <<Whitespace, OnlyPunctuation>>)
  /\ ~only_of(text, <<Letters, Digits, Whitespace>>)
  /\ ~re_search(system_message_words, text)
  /\ ~(re_search(auto_reply_words, text) /\ Len(text) < 10)

\* DataCleaner.standardize_datetime(dt): the microseconds are set to zero;
\* NaT stays NaT.
standardize_datetime(dt) == IF dt.ok THEN Timestamp(dt.min) ELSE NaT

-----------------------------------------------------------------------------
(* Message texts the inputs are drawn from.  Each is the value of           *)
(* clean_text on a raw message and passes is_valid_message, so it can reach *)
(* the walk.                                                                *)

\* "<U+6211><U+7684>ETC<U+5361><U+65E0><U+6CD5><U+6263><U+8D39>,<U+600E><U+4E48><U+529E>?"  (15 characters)
TextEtcHelp == <<25105,30340,69,84,67,21345,26080,27861,25187,36153,44,24590,20040,21150,63>>
\* "etc <U+5361> <U+65E0><U+6CD5> <U+6263><U+8D39>"  (11 characters)
TextEtcFee == <<101,116,99,32,21345,32,26080,27861,32,25187,36153>>
\* "etc <U+5361> <U+600E><U+4E48> <U+529E><U+7406>"  (11 characters)
TextEtcApply == <<101,116,99,32,21345,32,24590,20040,32,21150,29702>>
\* "<U+6211><U+7684>VIP<U+5230><U+671F><U+4E86>"  (8 characters)
TextVipExpired == <<25105,30340,86,73,80,21040,26399,20102>>
\* "VIP<U+53EF><U+4EE5><U+7EED><U+671F>"  (7 characters)
TextVipRenew == <<86,73,80,21487,20197,32493,26399>>
\* "<U+8BF7><U+63D0><U+4F9B><U+5361><U+53F7>"  (5 characters)
TextGiveCard == <<35831,25552,20379,21345,21495>>
\* "<U+5361><U+53F7><U+662F>1234"  (7 characters)
TextCardNo == <<21345,21495,26159,49,50,51,52>>
\* "<U+5DF2><U+4E3A><U+60A8><U+5904><U+7406>,ETC<U+4F59><U+989D><U+5DF2><U+6263><U+6B3E>"  (14 characters)
TextDone == <<24050,20026,24744,22788,29702,44,69,84,67,20313,39069,24050,25187,27454>>

Corpus == {TextEtcHelp, TextEtcFee, TextEtcApply, TextVipExpired, TextVipRenew,
           TextGiveCard, TextCardNo, TextDone}

-----------------------------------------------------------------------------
(* list.sort *)

Reverse(list) == [i \in 1..Len(list) |-> list[Len(list) + 1 - i]]

\* list.sort() of CPython for a list shorter than 64 elements; less[i][j] is
\* the comparison key(list[i]) < key(list[j]) of the elements at two positions
\* of the list. The initial run is found (and reversed when strictly
\* descending), then the remaining elements are placed by binary insertion.
\* The positions are sorted and the elements read back through them.
list_sort(list, less) ==
  LET n == Len(list)
      descending == less[2][1]
      InRun(r) == \A k \in 1..(r - 1) : less[k + 1][k] = descending
      run == CHOOSE r \in 1..n : InRun(r) /\ (r = n \/ ~InRun(r + 1))
      positions == [k \in 1..run |-> k]
      first == IF descending THEN Reverse(positions) ELSE positions
      Insert(sorted, pivot) ==
        LET Pos[l \in 0..Len(sorted), r \in 0..Len(sorted)] ==
              IF l >= r THEN l
              ELSE LET p == l + ((r - l) \div 2)
                   IN IF less[pivot][sorted[p + 1]] THEN Pos[l, p] ELSE Pos[p + 1, r]
            at == Pos[0, Len(sorted)]
        IN SubSeq(sorted, 1, at) \o <<pivot>> \o SubSeq(sorted, at + 1, Len(sorted))
      Sorted[k \in run..n] == IF k = run THEN first ELSE Insert(Sorted[k - 1], k)
  IN IF n < 2 THEN list ELSE [k \in 1..n |-> list[Sorted[n][k]]]

\* list.sort(reverse=True): the list is reversed, sorted, and reversed again.
list_sort_reverse(list, less) ==
  LET n == Len(list)
      reversed == [i \in 1..n |-> [j \in 1..n |-> less[n + 1 - i][n + 1 - j]]]
  IN Reverse(list_sort(Reverse(list), reversed))

-----------------------------------------------------------------------------
(* ChatQAProcessor: selection *)

\* The scores of the texts the inputs are drawn from, computed once.
semantic_similarity_table ==
  [t1 \in Corpus |-> [t2 \in Corpus |-> calculate_semantic_similarity(t1, t2)]]

context_match_table ==
  [q \in Corpus |-> [a \in Corpus |-> calculate_context_match(q, a)]]

\* self.cleaner.calculate_semantic_similarity(q['content'], other['content'])
cleaner_semantic_similarity(text1, text2) ==
  IF text1 \in Corpus /\ text2 \in Corpus
  THEN semantic_similarity_table[text1][text2]
  ELSE calculate_semantic_similarity(text1, text2)

\* self.cleaner.extract_tags(representative_question)
extract_tags_table == [t \in Corpus |-> extract_tags(t)]

cleaner_extract_tags(text) ==
  IF text \in Corpus THEN extract_tags_table[text] ELSE extract_tags(text)

\* self.cleaner.calculate_context_match(question, answer['content'])
cleaner_context_match(question, answer) ==
  IF question \in Corpus /\ answer \in Corpus
  THEN context_match_table[question][answer]
  ELSE calculate_context_match(question, answer)

\* The minimum question length of _select_representative_question.
MinQuestionLen == 5

\* The match threshold of _find_matching_answer, as a rational.
MatchThreshold == Rat(3, 10)

\* Mutant of similarity_exceeds: a later question with an equal total replaces
\* the best one (>= for >).
similarity_exceeds_or_equals(similarity, max_similarity) ==
  RLeq(max_similarity, similarity)

\* if similarity > max_similarity:
similarity_exceeds(similarity, max_similarity) == RLess(max_similarity, similarity)

\* Mutant of match_exceeds: a later answer with an equal score replaces the
\* best one (>= for >).
match_exceeds_or_equals(match_score, max_match_score) ==
  RLeq(max_match_score, match_score)

\* if match_score > max_match_score:
match_exceeds(match_score, max_match_score) == RLess(max_match_score, match_score)

\* _select_representative_question(questions): the content of the chosen question.
_select_representative_question(questions) ==
  IF questions = <<>> THEN <<>>
  ELSE
    LET shorter == [i \in 1..Len(questions) |-> [j \in 1..Len(questions) |->
                      Len(questions[i].content) < Len(questions[j].content)]]
        sorted == list_sort_reverse(questions, shorter)
        valid_questions == SelectSeq(sorted, LAMBDA q : Len(q.content) > MinQuestionLen)
        n == Len(valid_questions)
        Sum[k \in 1..n, j \in 0..n] ==
          IF j = 0 THEN RZero
          ELSE RAdd(Sum[k, j - 1],
                    cleaner_semantic_similarity(valid_questions[k].content,
                                                valid_questions[j].content))
        \* the loop state <<best_question, max_similarity>> after k iterations
        Loop[k \in 0..n] ==
          IF k = 0 THEN <<valid_questions[1].content, RZero>>
          ELSE LET previous == Loop[k - 1]
                   similarity == Sum[k, n]
               IN IF similarity_exceeds(similarity, previous[2])
                  THEN <<valid_questions[k].content, similarity>>
                  ELSE previous
    IN IF valid_questions = <<>> THEN sorted[1].content ELSE Loop[n][1]

\* _find_matching_answer(question, answers): the content of the chosen answer,
\* or the empty string.
_find_matching_answer(question, answers) ==
  IF answers = <<>> THEN <<>>
  ELSE
    LET n == Len(answers)
        \* the loop state <<best_answer, max_match_score>> after k iterations
        Loop[k \in 0..n] ==
          IF k = 0 THEN <<None, RZero>>
          ELSE LET previous == Loop[k - 1]
                   match_score == cleaner_context_match(question, answers[k].content)
               IN IF match_exceeds(match_score, previous[2])
                  THEN <<answers[k].content, match_score>>
                  ELSE previous
        final == Loop[n]
    IN IF RLess(final[2], MatchThreshold) THEN <<>> ELSE final[1]

\* The value _merge_session_messages returns when it yields no pair.
NoPair == [none |-> TRUE]

\* messages.sort(key=lambda x: x['time'])
sort_by_time(messages) ==
  list_sort(messages, [i \in 1..Len(messages) |-> [j \in 1..Len(messages) |->
                         TimeLess(messages[i].time, messages[j].time)]])

\* questions = [msg for msg in messages if msg['type'] == 'question'], after the sort
session_questions(messages) ==
  SelectSeq(sort_by_time(messages), LAMBDA msg : msg.type = "question")

\* answers = [msg for msg in messages if msg['type'] == 'answer'], after the sort
session_answers(messages) ==
  SelectSeq(sort_by_time(messages), LAMBDA msg : msg.type = "answer")

\* Mutant of first_source: the source of the last message of the type.
last_source(messages, type) ==
  LET of_type == SelectSeq(messages, LAMBDA msg : msg.type = type)
  IN IF of_type = <<>> THEN None ELSE of_type[Len(of_type)].source

\* next((msg['source'] for msg in messages if msg['type'] == type), None)
first_source(messages, type) ==
  LET of_type == SelectSeq(messages, LAMBDA msg : msg.type = type)
  IN IF of_type = <<>> THEN None ELSE of_type[1].source

\* d.get(key): the value under the key, None when the dict has no such key.
dict_get(d, key) == IF key \in DOMAIN d THEN d[key] ELSE None

\* Mutant of pair_time: the time of the last message of the list.
pair_time_of_last(messages) == messages[Len(messages)].time

\* messages[0]['time']
pair_time(messages) == messages[1].time

\* The end of _merge_session_messages: the pair built from the sorted
\* messages, the representative question and the matching answer, or NoPair
\* when one of them is empty.
qa_pair_of(messages, representative_question, matching_answer) ==
  IF representative_question = <<>> \/ matching_answer = <<>> THEN NoPair
  ELSE [none |-> FALSE,
        customer_id |-> first_source(messages, "question"),
        service_id |-> first_source(messages, "answer"),
        question |-> representative_question,
        answer |-> matching_answer,
        time |-> pair_time(messages),
        session_id |-> dict_get(messages[1], "session_id"),
        tags |-> cleaner_extract_tags(representative_question)]

\* matching_answer = self._find_matching_answer(representative_question, answers)
\* and what follows it.
merge_with_question(messages, representative_question, answers) ==
  qa_pair_of(messages, representative_question,
             _find_matching_answer(representative_question, answers))

\* _merge_session_messages after the sort and the separation of the questions
\* and the answers.
merge_sorted(messages, questions, answers) ==
  IF questions = <<>> \/ answers = <<>> THEN NoPair
  ELSE merge_with_question(messages, _select_representative_question(questions), answers)

\* _merge_session_messages(messages): a QA pair or NoPair.
_merge_session_messages(messages) ==
  IF messages = <<>> THEN NoPair
  ELSE merge_sorted(sort_by_time(messages), session_questions(messages),
                    session_answers(messages))

-----------------------------------------------------------------------------
(* Inputs of the walk *)

\* Largest number of rows in the frame handed to _process_qa_pairs.
MaxRows == 3

\* The senders of the rows and the text each of them sends: the customers
\* " mImjj1" and "mImjj2", the agents "A(1)" and "B(2)", and "sys", which is
\* neither.
Senders ==
  {[source |-> <<32,109,73,109,106,106,49>>, content |-> TextCardNo],
   [source |-> <<109,73,109,106,106,50>>, content |-> TextEtcFee],
   [source |-> <<65,40,49,41>>, content |-> TextCardNo],
   [source |-> <<66,40,50,41>>, content |-> TextEtcFee],
   [source |-> <<115,121,115>>, content |-> TextEtcFee]}

\* Session-id cells: "S1", "S2".
SessionCells == {<<83,49>>, <<83,50>>}

\* Message times: minutes 0 and 45 (further apart than the timeout), or NaT.
RowTimes == {Timestamp(0), Timestamp(45), NaT}

\* The cell read for a column the frame does not have.
NoCell == <<>>

\* _clean_data sorts the frame by message time (NaT last) before the walk:
\* a row can follow the rows read so far only in that order.
InTimeOrder(prev, row) ==
  \/ ~row.time.ok
  \/ prev.time.ok /\ prev.time.min <= row.time.min

Rows(withSessionCol) ==
  {[source |-> s.source, content |-> s.content, time |-> t, key |-> k] :
     s \in Senders, t \in RowTimes,
     k \in IF withSessionCol THEN SessionCells ELSE {NoCell}}

-----------------------------------------------------------------------------
(* ChatQAProcessor._process_qa_pairs *)

\* message_source.startswith('mImjj')
is_customer(message_source) == startswith(message_source, <<109,73,109,106,106>>)

\* Mutant of is_agent: every sender that is not a customer is an agent.
is_agent_unless_customer(message_source) == ~is_customer(message_source)

\* '(' in message_source and ')' in message_source (the elif branch)
is_agent(message_source) ==
  /\ ~is_customer(message_source)
  /\ Contains(message_source, <<40>>)
  /\ Contains(message_source, <<41>>)

\* session_id = str(row['<session id>']).strip() if the column is present else None
session_id_of(row) == IF hasSessionCol THEN strip(row.key) ELSE None

\* Mutant of new_session: a new session starts only when the current one has
\* recorded a message.
new_session_if_recorded(session_id) ==
  /\ current_session_id # None
  /\ session_id # current_session_id
  /\ current_session_messages # <<>>

\* The condition under which the walk starts a new session at a row.
new_session(session_id) ==
  current_session_id # None /\ session_id # current_session_id

\* Mutant of records_answer: an agent message is recorded whether or not a
\* question was seen.
records_answer_always(question) == TRUE

\* if current_question is not None: (an agent message is recorded)
records_answer(question) == question # None

\* Mutant of new_session_block: the block leaves current_question as it is.
new_session_block_keeping_question(boundary) ==
  IF boundary
  THEN [messages |-> <<>>, customer |-> None, service |-> None,
        question |-> current_question]
  ELSE [messages |-> current_session_messages, customer |-> current_customer,
        service |-> current_service, question |-> current_question]

\* Mutant of recorded_message: the dict also keeps the session id of the row.
recorded_message_with_session_id(type, content, time, source, session_id) ==
  [type |-> type, content |-> content, time |-> time, source |-> source,
   session_id |-> session_id]

\* The dict appended to current_session_messages for a question or an answer.
recorded_message(type, content, time, source, session_id) ==
  [type |-> type, content |-> content, time |-> time, source |-> source]

\* The locals after the new-session block of an iteration.
new_session_block(boundary) ==
  IF boundary
  THEN [messages |-> <<>>, customer |-> None, service |-> None, question |-> None]
  ELSE [messages |-> current_session_messages, customer |-> current_customer,
        service |-> current_service, question |-> current_question]

\* The record kept for a finalized session: the rows first..last of df, the
\* list current_session_messages at that moment, whether it was handed to
\* _merge_session_messages, and the result (NoPair when it was not).
Finalized(last, result) ==
  [first |-> sessionStart, last |-> last,
   messages |-> current_session_messages,
   merged |-> current_session_messages # <<>>,
   result |-> result]

InitWalk ==
  /\ hasSessionCol \in BOOLEAN
  /\ df = <<>>
  /\ pc = "loop"
  /\ qa_pairs = <<>>
  /\ current_customer = None
  /\ current_service = None
  /\ current_question = None
  /\ current_session_id = None
  /\ current_session_messages = <<>>
  /\ sessionStart = 1
  /\ closed = <<>>
  /\ call = [fn |-> "none"]

\* One iteration of the loop over df.iterrows(). qa_pair is what the
\* new-session block obtains: the value of _merge_session_messages when the
\* block hands the session over, NoPair when it does not.
ProcessRow(row) ==
  LET message_source == strip(row.source)
      message_content == strip(row.content)
      message_time == row.time
      session_id == session_id_of(row)
      boundary == new_session(session_id)
      locals == new_session_block(boundary)
  IN
  /\ pc = "loop"
  /\ df' = Append(df, row)
  /\ \E qa_pair \in {IF boundary /\ current_session_messages # <<>>
                     THEN _merge_session_messages(current_session_messages)
                     ELSE NoPair} :
       /\ qa_pairs' = IF ~qa_pair.none THEN Append(qa_pairs, qa_pair) ELSE qa_pairs
       /\ closed' = IF boundary THEN Append(closed, Finalized(Len(df), qa_pair))
                    ELSE closed
  /\ sessionStart' = IF boundary THEN Len(df) + 1 ELSE sessionStart
  /\ current_session_id' = session_id
  /\ IF is_customer(message_source)
     THEN /\ current_customer' = message_source
          /\ current_question' = message_content
          /\ current_service' = None
          /\ current_session_messages' =
               IF message_content # <<>>
               THEN Append(locals.messages,
                           recorded_message("question", message_content, message_time,
                                            message_source, session_id))
               ELSE locals.messages
     ELSE IF is_agent(message_source)
     THEN /\ current_session_messages' =
               IF records_answer(locals.question)
               THEN Append(locals.messages,
                           recorded_message("answer", message_content, message_time,
                                            message_source, session_id))
               ELSE locals.messages
          /\ current_service' = message_source
          /\ current_customer' = locals.customer
          /\ current_question' = locals.question
     ELSE /\ current_session_messages' = locals.messages
          /\ current_customer' = locals.customer
          /\ current_service' = locals.service
          /\ current_question' = locals.question
  /\ UNCHANGED <<hasSessionCol, pc, call>>

\* The loop over the rows of a frame of at most MaxRows rows in time order.
Walk ==
  \E row \in Rows(hasSessionCol) :
    /\ Len(df) < MaxRows
    /\ df # <<>> => InTimeOrder(df[Len(df)], row)
    /\ ProcessRow(row)

\* Mutant of Finish: the walk returns without handing over the last session.
Finish_without_flush ==
  /\ pc = "loop"
  /\ pc' = "done"
  /\ UNCHANGED <<hasSessionCol, df, qa_pairs, current_customer, current_service,
                 current_question, current_session_id, current_session_messages,
                 sessionStart, closed, call>>

\* After the last row: the last session is handed over, if it recorded a
\* message, and the walk returns.
Finish ==
  /\ pc = "loop"
  /\ pc' = "done"
  /\ \E qa_pair \in {IF current_session_messages # <<>>
                     THEN _merge_session_messages(current_session_messages)
                     ELSE NoPair} :
       /\ qa_pairs' = IF ~qa_pair.none THEN Append(qa_pairs, qa_pair) ELSE qa_pairs
       /\ closed' = IF df # <<>> THEN Append(closed, Finalized(Len(df), qa_pair))
                    ELSE closed
  /\ UNCHANGED <<hasSessionCol, df, current_customer, current_service, current_question,
                 current_session_id, current_session_messages, sessionStart, call>>

Next == Walk \/ Finish

Spec == InitWalk /\ [][Next]_vars

-----------------------------------------------------------------------------
(* ChatQAProcessor.process_chat_records: the whole run, from the frame read  *)
(* from the Excel file to the files written by _save_results.  The locals of *)
(* the run are the fields of call; the walk is the one of _process_qa_pairs  *)
(* above, on the frame that _clean_data returns.                             *)

\* Largest number of rows of the frame read from the Excel file.
MaxRaw == 3

\* The raw message texts.
\* "etc <U+5361> <U+65E0><U+6CD5> <U+6263><U+8D39>"
RawEtcFee == <<101,116,99,32,21345,32,26080,27861,32,25187,36153>>
\* "[<U+56FE><U+7247>]"
RawPicture == <<91,22270,29255,93>>
\* "<U+7CFB><U+7EDF><U+63D0><U+793A><U+FF1A><U+5361><U+53F7><U+662F>1234"
RawSystem == <<31995,32479,25552,31034,65306,21345,21495,26159,49,50,51,52>>
\* "<U+597D><U+7684>"
RawOk == <<22909,30340>>
\* "<U+6211><U+7684>ETC<U+5361><U+65E0><U+6CD5><U+6263><U+8D39><U+FF0C><U+600E><U+4E48><U+529E><U+FF1F>"
RawEtcHelp == <<25105,30340,69,84,67,21345,26080,27861,25187,36153,65292,24590,20040,21150,65311>>
\* "<U+8BF7><U+63D0><U+4F9B><U+5361><U+53F7>"
RawGiveCard == <<35831,25552,20379,21345,21495>>
\* "<U+5361><U+53F7><U+662F>1234"
RawCardNo == <<21345,21495,26159,49,50,51,52>>
\* "<U+5DF2><U+4E3A><U+60A8><U+5904><U+7406><U+FF0C>ETC<U+4F59><U+989D><U+5DF2><U+6263><U+6B3E>"
RawDone == <<24050,20026,24744,22788,29702,65292,69,84,67,20313,39069,24050,25187,27454>>

RawTexts == {RawEtcFee, RawPicture, RawSystem, RawOk, RawEtcHelp, RawGiveCard,
             RawCardNo, RawDone}

\* The cleaned raw texts, computed once.
clean_text_table == [text \in RawTexts |-> clean_text(text)]

\* self.cleaner.clean_text, applied to a cell of the content column
cleaner_clean_text(text) ==
  IF text \in RawTexts THEN clean_text_table[text] ELSE clean_text(text)

\* A message time as read from the file: minutes and microseconds.
RawTimestamp(m, us) == [ok |-> TRUE, min |-> m, us |-> us]

\* A row of the frame read from the file; content None is an empty cell (NaN).
RawRow(withSessionCol, source, content, time, cell) ==
  [source |-> source, content |-> content, time |-> time,
   key |-> IF withSessionCol THEN cell ELSE NoCell]

\* The rows the frames are made of: valid messages of the customer "mImjj1"
\* and of the agent "A(1)" in the sessions "S1" and "S2", a message that
\* clean_text empties, a message that is_valid_message rejects after cleaning,
\* an empty cell with a malformed time, and a message that is too short.
RawRows(withSessionCol) ==
  {RawRow(withSessionCol, <<109,73,109,106,106,49>>, RawEtcFee, RawTimestamp(0, 0), <<83,49>>),
   RawRow(withSessionCol, <<65,40,49,41>>, RawEtcFee, RawTimestamp(1, 0), <<83,49>>),
   RawRow(withSessionCol, <<65,40,49,41>>, RawEtcFee, RawTimestamp(1, 0), <<83,50>>),
   RawRow(withSessionCol, <<109,73,109,106,106,49>>, RawEtcFee, RawTimestamp(1, 0), <<83,50>>),
   RawRow(withSessionCol, <<65,40,49,41>>, RawPicture, RawTimestamp(0, 500000), <<83,50>>),
   RawRow(withSessionCol, <<109,73,109,106,106,49>>, RawSystem, RawTimestamp(1, 0), <<83,50>>),
   RawRow(withSessionCol, <<65,40,49,41>>, None, NaT, <<83,49>>),
   RawRow(withSessionCol, <<109,73,109,106,106,49>>, RawOk, RawTimestamp(0, 0), <<83,49>>)}

\* The frames of at most MaxRaw rows.
RawFrames(withSessionCol) ==
  UNION {[1..n -> RawRows(withSessionCol)] : n \in 0..MaxRaw}

\* One session of four messages: the customer asks, the agent asks for the
\* card number, the customer gives it, the agent answers (minutes 0 to 3).
Scenario(withSessionCol) ==
  << RawRow(withSessionCol, <<109,73,109,106,106,49>>, RawEtcHelp, RawTimestamp(0, 0), <<83,49>>),
     RawRow(withSessionCol, <<65,40,49,41>>, RawGiveCard, RawTimestamp(1, 0), <<83,49>>),
     RawRow(withSessionCol, <<109,73,109,106,106,49>>, RawCardNo, RawTimestamp(2, 0), <<83,49>>),
     RawRow(withSessionCol, <<65,40,49,41>>, RawDone, RawTimestamp(3, 0), <<83,49>>) >>

\* required_columns: the sender label, the content and the message time.
required_columns == {"source", "content", "time"}

\* The columns a frame can have: all the required ones or all but one, and
\* the session-id column or not.
ColumnSets(withSessionCol) ==
  {required \cup (IF withSessionCol THEN {"session_id"} ELSE {}) :
     required \in {required_columns} \cup {required_columns \ {c} : c \in required_columns}}

\* Mutant of has_no_data: an empty frame is let through.
has_no_data_never(frame) == FALSE

\* if len(df) == 0:
has_no_data(frame) == Len(frame) = 0

\* The check of process_chat_records raises ValueError.
check_raises(columns, frame) ==
  ~(required_columns \subseteq columns) \/ has_no_data(frame)

\* generate_quality_report raises: _analyze_message_length reads the content
\* column through the .str accessor, which a column without any str (all
\* cells empty) does not have.
diagnosis_raises(frame) ==
  frame # <<>> /\ \A i \in 1..Len(frame) : frame[i].content = None

\* Whether sort_values puts the time a before the time b: NaT comes last.
SortsBefore(a, b) ==
  a.ok /\ (~b.ok \/ a.min < b.min \/ (a.min = b.min /\ a.us < b.us))

\* df.sort_values(<message time>): the sort is not stable, so the rows with
\* equal times can come in any order.
sort_values(frame) ==
  LET n == Len(frame)
      orders == {order \in [1..n -> 1..n] :
                   /\ \A i, j \in 1..n : i # j => order[i] # order[j]
                   /\ \A i, j \in 1..n :
                        i < j => ~SortsBefore(frame[order[j]].time, frame[order[i]].time)}
  IN {[i \in 1..n |-> frame[order[i]]] : order \in orders}

\* The row of the frame after clean_text and standardize_datetime.
cleaned_row(row) ==
  [source |-> row.source, content |-> cleaner_clean_text(row.content),
   time |-> standardize_datetime(row.time), key |-> row.key]

\* Mutant of _clean_data: the invalid messages are not filtered out.
_clean_data_unfiltered(sorted) == [i \in 1..Len(sorted) |-> cleaned_row(sorted[i])]

\* _clean_data on the sorted frame: the rows are cleaned and those whose
\* content is not a valid message are dropped.
_clean_data(sorted) ==
  SelectSeq([i \in 1..Len(sorted) |-> cleaned_row(sorted[i])],
            LAMBDA row : is_valid_message(row.content))

\* The files _save_results writes into the output directory.
OutputFiles == {"qa_pairs.xlsx", "diagnostic_report.json", "knowledge_base.json"}

InitPipeline ==
  /\ hasSessionCol \in BOOLEAN
  /\ df = <<>>
  /\ pc = "start"
  /\ qa_pairs = <<>>
  /\ current_customer = None
  /\ current_service = None
  /\ current_question = None
  /\ current_session_id = None
  /\ current_session_messages = <<>>
  /\ sessionStart = 1
  /\ closed = <<>>
  /\ call = [fn |-> "none"]

\* os.makedirs and pd.read_excel: the frame that was read.
ReadExcel ==
  /\ pc = "start"
  /\ pc' = "check"
  /\ \E columns \in ColumnSets(hasSessionCol),
        raw \in RawFrames(hasSessionCol) \cup {Scenario(hasSessionCol)} :
       call' = [fn |-> "process_chat_records", columns |-> columns, raw |-> raw,
                diagnosed |-> FALSE, cleaned |-> FALSE, sorted |-> <<>>, frame |-> <<>>,
                files |-> {}]
  /\ UNCHANGED walkVars

\* The required columns and the number of rows are checked.
CheckFrame ==
  /\ pc = "check"
  /\ pc' = IF check_raises(call.columns, call.raw) THEN "raised" ELSE "diagnose"
  /\ UNCHANGED <<walkVars, call>>

\* diagnostic_report = self.analyzer.generate_quality_report(df)
Diagnose ==
  /\ pc = "diagnose"
  /\ IF diagnosis_raises(call.raw)
     THEN pc' = "raised" /\ UNCHANGED call
     ELSE pc' = "clean" /\ call' = [call EXCEPT !.diagnosed = TRUE]
  /\ UNCHANGED walkVars

\* df = self._clean_data(df)
CleanData ==
  /\ pc = "clean"
  /\ pc' = "loop"
  /\ \E sorted \in sort_values(call.raw) :
       call' = [call EXCEPT !.cleaned = TRUE, !.sorted = sorted,
                            !.frame = _clean_data(sorted)]
  /\ UNCHANGED walkVars

\* _process_qa_pairs: the next row of the cleaned frame.
WalkFrame ==
  /\ call.fn = "process_chat_records"
  /\ Len(df) < Len(call.frame)
  /\ ProcessRow(call.frame[Len(df) + 1])

\* _process_qa_pairs: after the last row of the cleaned frame.
FinishFrame ==
  /\ call.fn = "process_chat_records"
  /\ Len(df) = Len(call.frame)
  /\ Finish

\* _save_results writes the pairs, the report and the knowledge base.
SaveResults ==
  /\ pc = "done"
  /\ call.fn = "process_chat_records"
  /\ pc' = "returned"
  /\ call' = [call EXCEPT !.files = OutputFiles]
  /\ UNCHANGED walkVars

NextPipeline ==
  ReadExcel \/ CheckFrame \/ Diagnose \/ CleanData \/ WalkFrame \/ FinishFrame \/ SaveResults

SpecPipeline == InitPipeline /\ [][NextPipeline]_vars

-----------------------------------------------------------------------------
(* The selector functions on their own: one call at a time, on lists of up   *)
(* to MaxCandidates messages whose texts are drawn from Corpus.              *)

\* Largest number of messages in a list handed to a selector function.
MaxCandidates == 3

\* The k-th message of a list: sent at minute k by the customer "mImjj2" or
\* the agent "A(1)".
Candidate(type, content, k) ==
  [type |-> type, content |-> content, time |-> Timestamp(k),
   source |-> IF type = "question" THEN <<109,73,109,106,106,50>> ELSE <<65,40,49,41>>]

\* The list of n messages of one type with the given texts, in time order.
CandidateList(type, n, texts) == [k \in 1..n |-> Candidate(type, texts[k], k)]

\* The list of n messages with the given types and texts, in time order.
SessionList(n, types, texts) == [k \in 1..n |-> Candidate(types[k], texts[k], k)]

InitSel ==
  /\ hasSessionCol = FALSE
  /\ df = <<>>
  /\ pc = "idle"
  /\ qa_pairs = <<>>
  /\ current_customer = None
  /\ current_service = None
  /\ current_question = None
  /\ current_session_id = None
  /\ current_session_messages = <<>>
  /\ sessionStart = 1
  /\ closed = <<>>
  /\ call = [fn |-> "none"]

CallSelect ==
  /\ call.fn = "none"
  /\ \E n \in 0..MaxCandidates : \E texts \in [1..n -> Corpus] :
       LET questions == CandidateList("question", n, texts)
       IN call' = [fn |-> "select", questions |-> questions,
                   result |-> _select_representative_question(questions)]
  /\ UNCHANGED <<walkVars, pc>>

CallFind ==
  /\ call.fn = "none"
  /\ \E question \in Corpus : \E n \in 0..MaxCandidates : \E texts \in [1..n -> Corpus] :
       LET answers == CandidateList("answer", n, texts)
       IN call' = [fn |-> "find", question |-> question, answers |-> answers,
                   result |-> _find_matching_answer(question, answers)]
  /\ UNCHANGED <<walkVars, pc>>

CallMerge ==
  /\ call.fn = "none"
  /\ \E n \in 0..MaxCandidates :
       \E types \in [1..n -> {"question", "answer"}], texts \in [1..n -> Corpus] :
         LET messages == SessionList(n, types, texts)
         IN call' = [fn |-> "merge", messages |-> messages,
                     result |-> _merge_session_messages(messages)]
  /\ UNCHANGED <<walkVars, pc>>

Return ==
  /\ call.fn # "none"
  /\ call' = [fn |-> "none"]
  /\ UNCHANGED <<walkVars, pc>>

NextSel == CallSelect \/ CallFind \/ CallMerge \/ Return

SpecSel == InitSel /\ [][NextSel]_vars

-----------------------------------------------------------------------------
(* The scoring functions of DataCleaner on their own: one call at a time,    *)
(* on texts drawn from ScoreTexts.                                           *)

\* ""
TextEmpty == <<>>
\* " "
TextBlank == <<32>>
\* "<U+4E0B><U+8F7D>APP"  (5 characters)
TextAppUpper == <<19979,36733,65,80,80>>
\* "<U+4E0B><U+8F7D>app"  (5 characters)
TextAppLower == <<19979,36733,97,112,112>>
\* "<U+6211><U+7684>vip<U+5230><U+671F><U+4E86>"  (8 characters)
TextVipLower == <<25105,30340,118,105,112,21040,26399,20102>>

\* The texts the scoring functions are called on: the message texts, the
\* empty and the blank text, and texts that differ in letter case only.
ScoreTexts == Corpus \cup {TextEmpty, TextBlank, TextAppUpper, TextAppLower, TextVipLower}

InitScore ==
  /\ hasSessionCol = FALSE
  /\ df = <<>>
  /\ pc = "score"
  /\ qa_pairs = <<>>
  /\ current_customer = None
  /\ current_service = None
  /\ current_question = None
  /\ current_session_id = None
  /\ current_session_messages = <<>>
  /\ sessionStart = 1
  /\ closed = <<>>
  /\ call = [fn |-> "none"]

CallSimilarity ==
  /\ call.fn = "none"
  /\ \E text1 \in ScoreTexts, text2 \in ScoreTexts :
       call' = [fn |-> "semantic_similarity", text1 |-> text1, text2 |-> text2,
                result |-> calculate_semantic_similarity(text1, text2)]
  /\ UNCHANGED <<walkVars, pc>>

CallContextMatch ==
  /\ call.fn = "none"
  /\ \E question \in ScoreTexts, answer \in ScoreTexts :
       call' = [fn |-> "context_match", question |-> question, answer |-> answer,
                result |-> calculate_context_match(question, answer)]
  /\ UNCHANGED <<walkVars, pc>>

CallExtractTags ==
  /\ call.fn = "none"
  /\ \E text \in ScoreTexts :
       call' = [fn |-> "extract_tags", text |-> text, result |-> extract_tags(text)]
  /\ UNCHANGED <<walkVars, pc>>

ReturnScore ==
  /\ call.fn # "none"
  /\ call' = [fn |-> "none"]
  /\ UNCHANGED <<walkVars, pc>>

NextScore == CallSimilarity \/ CallContextMatch \/ CallExtractTags \/ ReturnScore

SpecScore == InitScore /\ [][NextScore]_vars

-----------------------------------------------------------------------------
(* What the properties speak of *)

\* The inactivity timeout, in minutes.
InactivityTimeout == 30

\* The sender label and the session key of a row, as the walk reads them.
SenderLabel(row) == strip(row.source)
SessionKey(row) == IF hasSessionCol THEN strip(row.key) ELSE None

\* The role of a row: Customer labels start with "mImjj", Agent labels are
\* the other labels that have both parentheses.
RoleOf(row) ==
  LET label == SenderLabel(row) IN
    IF startswith(label, <<109,73,109,106,106>>) THEN "Customer"
    ELSE IF Contains(label, <<40>>) /\ Contains(label, <<41>>) THEN "Agent"
         ELSE "Unknown"

\* The number of the session the k-th row belongs to.
SessionOf(k) ==
  IF \E j \in 1..Len(closed) : closed[j].first <= k /\ k <= closed[j].last
  THEN CHOOSE j \in 1..Len(closed) : closed[j].first <= k /\ k <= closed[j].last
  ELSE Len(closed) + 1

\* The rows of a finalized session.
RowsOf(c) == SubSeq(df, c.first, c.last)

\* The positions of the rows of a role in a sequence of rows.
Positions(rows, role) == {k \in 1..Len(rows) : RoleOf(rows[k]) = role}

SetMin(S) == CHOOSE x \in S : \A y \in S : x <= y

\* The message of a row.
MessageOf(row) ==
  [type |-> IF RoleOf(row) = "Customer" THEN "question" ELSE "answer",
   content |-> strip(row.content), time |-> row.time, source |-> SenderLabel(row)]

\* The messages of the rows at the positions of a set, in row order.
MessagesAt(rows, S) ==
  LET F[k \in 0..Len(rows)] ==
        IF k = 0 THEN <<>>
        ELSE IF k \in S THEN Append(F[k - 1], MessageOf(rows[k])) ELSE F[k - 1]
  IN F[Len(rows)]

\* No element of the list is strictly earlier than an element before it.
InTimeOrderList(list) ==
  \A i, j \in 1..Len(list) : i < j => ~TimeLess(list[j].time, list[i].time)

\* The finalized sessions that yielded a pair, in order.
Emitted == SelectSeq(closed, LAMBDA c : ~c.result.none)

\* Two adjacent rows whose times are well-formed and more than the timeout apart.
GapExceeded(k) ==
  /\ df[k].time.ok /\ df[k - 1].time.ok
  /\ df[k].time.min - df[k - 1].time.min > InactivityTimeout

-----------------------------------------------------------------------------
(* Properties of the walk *)

\* C1: a message that comes more than the inactivity timeout after the previous
\* message starts a new session, when both carry the same session key and when
\* no message carries a key.
C1_GapStartsNewSession ==
  \A k \in 2..Len(df) :
    (GapExceeded(k) /\ SessionKey(df[k]) = SessionKey(df[k - 1]))
      => SessionOf(k) # SessionOf(k - 1)

\* C2: a message whose session key differs from the previous message's key is
\* the first member of a new session, and the session of the previous message
\* is finalized at that point, however small the gap between them.
C2_KeyChangeStartsNewSession ==
  \A k \in 2..Len(df) :
    SessionKey(df[k]) # SessionKey(df[k - 1])
      => /\ SessionOf(k) # SessionOf(k - 1)
         /\ SessionOf(k - 1) <= Len(closed)
         /\ closed[SessionOf(k - 1)].last = k - 1
         /\ IF SessionOf(k) <= Len(closed)
            THEN closed[SessionOf(k)].first = k
            ELSE sessionStart = k

\* C2 witness: two adjacent Customer rows with different keys whose gap is
\* within the inactivity timeout.
C2_Witness ==
  \E k \in 2..Len(df) :
    /\ SessionKey(df[k]) # SessionKey(df[k - 1])
    /\ df[k].time.ok /\ df[k - 1].time.ok
    /\ df[k].time.min - df[k - 1].time.min <= InactivityTimeout
    /\ RoleOf(df[k]) = "Customer" /\ RoleOf(df[k - 1]) = "Customer"

\* C3: a message whose timestamp, or whose predecessor's timestamp, is
\* malformed starts a new session.
C3_MalformedTimeStartsNewSession ==
  \A k \in 2..Len(df) :
    (~df[k].time.ok \/ ~df[k - 1].time.ok) => SessionOf(k) # SessionOf(k - 1)

\* C4 (as claimed): every finalized session is handed to the selector, the
\* sessions follow one another without gap or overlap, the last one ends with
\* the last row, and there are no more pairs than sessions.
C4_EverySessionHandedToSelector ==
  /\ \A j \in 1..Len(closed) :
       /\ closed[j].first = IF j = 1 THEN 1 ELSE closed[j - 1].last + 1
       /\ closed[j].merged
  /\ Len(qa_pairs) <= Len(closed)
  /\ pc = "done" /\ df # <<>> => closed # <<>> /\ closed[Len(closed)].last = Len(df)

\* C4 (amended): when the walk has returned, every row lies in exactly one
\* finalized session (the sessions follow one another and the last one ends
\* with the last row), a session is handed to the selector exactly when it
\* recorded a message, and the pairs returned are the pairs of the finalized
\* sessions, at most one each, in order.
C4_SessionsFinalizedOnce ==
  /\ \A j \in 1..Len(closed) :
       /\ closed[j].first <= closed[j].last
       /\ closed[j].first = IF j = 1 THEN 1 ELSE closed[j - 1].last + 1
       /\ closed[j].merged = (closed[j].messages # <<>>)
       /\ ~closed[j].merged => closed[j].result.none
  /\ Len(qa_pairs) = Len(Emitted)
  /\ \A i \in 1..Len(qa_pairs) : qa_pairs[i] = Emitted[i].result
  /\ Len(qa_pairs) <= Len(closed)
  /\ pc = "loop" => sessionStart = IF closed = <<>> THEN 1 ELSE closed[Len(closed)].last + 1
  /\ pc = "done" =>
       /\ df # <<>> => closed # <<>> /\ closed[Len(closed)].last = Len(df)
       /\ \A k \in 1..Len(df) :
            Cardinality({j \in 1..Len(closed) :
                           closed[j].first <= k /\ k <= closed[j].last}) = 1

\* C4 witness: the walk has returned; a session that recorded no message was
\* finalized at a boundary without reaching the selector, and the last session
\* was handed to it at the end of the stream and yielded a pair.
C4_Witness ==
  /\ pc = "done"
  /\ Len(closed) >= 2
  /\ \E j \in 1..Len(closed) : ~closed[j].merged
  /\ closed[Len(closed)].merged
  /\ ~closed[Len(closed)].result.none
  /\ Len(qa_pairs) >= 1

\* C5: a finalized session without a Customer message or without an Agent
\* message yields no pair, and the sessions after it are processed as usual.
C5_MissingRoleYieldsNoPair ==
  LET BothRoles(c) ==
        LET rows == RowsOf(c)
        IN Positions(rows, "Customer") # {} /\ Positions(rows, "Agent") # {}
  IN /\ \A j \in 1..Len(closed) : ~BothRoles(closed[j]) => closed[j].result.none
     /\ Len(qa_pairs) =
          Cardinality({j \in 1..Len(closed) :
                         ~closed[j].result.none /\ BothRoles(closed[j])})

\* C5 witness: a session of Customer messages only and a session of one
\* message have been finalized without a pair, and a later session yielded one.
C5_Witness ==
  /\ Len(closed) >= 2
  /\ Positions(RowsOf(closed[1]), "Agent") = {}
  /\ Positions(RowsOf(closed[1]), "Customer") # {}
  /\ closed[1].first = closed[1].last
  /\ ~closed[Len(closed)].result.none

\* C8 (as claimed): the question candidates of a session handed to the selector
\* are all its Customer messages and the answer candidates are all its Agent
\* messages, each in time order.
C8_CandidatesAreAllMessagesOfRole ==
  \A j \in 1..Len(closed) :
    closed[j].merged =>
      LET rows == RowsOf(closed[j])
          questions == session_questions(closed[j].messages)
          answers == session_answers(closed[j].messages)
      IN /\ questions = MessagesAt(rows, Positions(rows, "Customer"))
         /\ answers = MessagesAt(rows, Positions(rows, "Agent"))
         /\ InTimeOrderList(questions)
         /\ InTimeOrderList(answers)

\* C8 (amended): the question candidates of a session are all its Customer
\* messages and the answer candidates are its Agent messages that come after
\* its first Customer message, each in time order.
C8_CandidatesAfterFirstCustomer ==
  \A j \in 1..Len(closed) :
    LET rows == RowsOf(closed[j])
        customers == Positions(rows, "Customer")
        firstCustomer == SetMin(customers)
        agents == IF customers = {} THEN {}
                  ELSE {k \in Positions(rows, "Agent") : k > firstCustomer}
        questions == session_questions(closed[j].messages)
        answers == session_answers(closed[j].messages)
    IN /\ questions = MessagesAt(rows, customers)
       /\ answers = MessagesAt(rows, agents)
       /\ InTimeOrderList(questions)
       /\ InTimeOrderList(answers)

\* C8 witness: a session handed to the selector has an Agent message before
\* its first Customer message and an Agent message after it.
C8_Witness ==
  \E j \in 1..Len(closed) :
    LET rows == RowsOf(closed[j]) IN
      /\ closed[j].merged
      /\ RoleOf(rows[1]) = "Agent"
      /\ session_answers(closed[j].messages) # <<>>

\* C9 (as claimed): the time of every emitted pair is the time of the first
\* message of its session.
C9_TimeOfFirstMessage ==
  /\ Len(qa_pairs) = Len(Emitted)
  /\ \A i \in 1..Len(qa_pairs) : qa_pairs[i].time = df[Emitted[i].first].time

\* C9 (amended): the time of every emitted pair is the time of the first
\* Customer message of its session.
C9_TimeOfFirstCustomerMessage ==
  /\ Len(qa_pairs) = Len(Emitted)
  /\ \A i \in 1..Len(qa_pairs) :
       LET rows == RowsOf(Emitted[i])
       IN qa_pairs[i].time = rows[SetMin(Positions(rows, "Customer"))].time

\* C9 witness: a pair was emitted for a session whose first message is not a
\* Customer message and is earlier than its first Customer message.
C9_Witness ==
  \E i \in 1..Len(qa_pairs) :
    LET rows == RowsOf(Emitted[i]) IN
      /\ RoleOf(rows[1]) # "Customer"
      /\ rows[1].time # rows[SetMin(Positions(rows, "Customer"))].time

\* C10 (as claimed): customer_id is the sender label of the first Customer
\* message of the session and agent_id the sender label of its first Agent
\* message.
C10_IdsOfFirstMessagesOfRole ==
  /\ Len(qa_pairs) = Len(Emitted)
  /\ \A i \in 1..Len(qa_pairs) :
       LET rows == RowsOf(Emitted[i]) IN
         /\ qa_pairs[i].customer_id =
              SenderLabel(rows[SetMin(Positions(rows, "Customer"))])
         /\ qa_pairs[i].service_id =
              SenderLabel(rows[SetMin(Positions(rows, "Agent"))])

\* C10 (amended): customer_id is the sender label of the first Customer message
\* of the session and agent_id the sender label of the first Agent message
\* that comes after it, whichever question and answer were selected.
C10_IdsOfFirstRecordedMessages ==
  /\ Len(qa_pairs) = Len(Emitted)
  /\ \A i \in 1..Len(qa_pairs) :
       LET rows == RowsOf(Emitted[i])
           firstCustomer == SetMin(Positions(rows, "Customer"))
       IN /\ qa_pairs[i].customer_id = SenderLabel(rows[firstCustomer])
          /\ qa_pairs[i].service_id =
               SenderLabel(rows[SetMin({k \in Positions(rows, "Agent") :
                                          k > firstCustomer})])

\* C10 witness: a pair was emitted for a session whose first Agent message comes
\* before its first Customer message and carries another label than the first
\* Agent message after it.
C10_Witness ==
  \E i \in 1..Len(qa_pairs) :
    LET rows == RowsOf(Emitted[i])
        firstCustomer == SetMin(Positions(rows, "Customer"))
        firstAgent == SetMin(Positions(rows, "Agent"))
    IN /\ firstAgent < firstCustomer
       /\ SenderLabel(rows[firstAgent]) # qa_pairs[i].service_id


\* The Agent rows of a sequence of rows that have a Customer row before them.
AgentsAfterACustomer(rows) ==
  {k \in Positions(rows, "Agent") : \E i \in Positions(rows, "Customer") : i < k}

\* The rows of the session that is open.
OpenRows == SubSeq(df, sessionStart, Len(df))

\* The number of answers among the messages of a list.
AnswerCount(messages) == Len(SelectSeq(messages, LAMBDA msg : msg.type = "answer"))

\* C18: an Agent message is recorded as an answer candidate only if a Customer
\* message was seen before it in the same session: the walk holds a question
\* exactly when the open session has a Customer message, the answers recorded
\* for a session are as many as its Agent messages that follow a Customer
\* message of that session, and the answer of every emitted pair is the text of
\* an Agent message that follows a Customer message of the same session.
C18_AnswersFollowACustomerMessage ==
  /\ pc = "loop" =>
       /\ (current_question # None) <=> (Positions(OpenRows, "Customer") # {})
       /\ AnswerCount(current_session_messages)
            = Cardinality(AgentsAfterACustomer(OpenRows))
  /\ \A j \in 1..Len(closed) :
       /\ AnswerCount(closed[j].messages)
            = Cardinality(AgentsAfterACustomer(RowsOf(closed[j])))
       /\ ~closed[j].result.none =>
            \E k \in AgentsAfterACustomer(RowsOf(closed[j])) :
              strip(RowsOf(closed[j])[k].content) = closed[j].result.answer
  /\ Len(qa_pairs) = Len(Emitted)

\* C18 witness: a pair was emitted for a session in which every Agent message
\* with the text of the answer follows a Customer message and comes before
\* every Customer message with the text of the selected question.
C18_Witness ==
  \E j \in 1..Len(closed) :
    LET rows == RowsOf(closed[j]) IN
      /\ ~closed[j].result.none
      /\ closed[j].result.question # strip(rows[SetMin(Positions(rows, "Customer"))].content)
      /\ \A a \in Positions(rows, "Agent"), q \in Positions(rows, "Customer") :
           (/\ strip(rows[a].content) = closed[j].result.answer
            /\ strip(rows[q].content) = closed[j].result.question)
             => (a < q /\ a \in AgentsAfterACustomer(rows))

\* C19: the session id of every emitted pair is null, whether or not the rows
\* carry a session key: no message the walk records has a session id, neither
\* in the open session nor in a finalized one.
C19_SessionIdIsNull ==
  /\ \A i \in 1..Len(qa_pairs) : qa_pairs[i].session_id = None
  /\ \A k \in 1..Len(current_session_messages) :
       "session_id" \notin DOMAIN current_session_messages[k]
  /\ \A j \in 1..Len(closed) : \A k \in 1..Len(closed[j].messages) :
       "session_id" \notin DOMAIN closed[j].messages[k]

\* C19 witness: the frame has the session-id column, and a pair was emitted
\* for a session all of whose rows carry the key "S1".
C19_Witness ==
  /\ hasSessionCol
  /\ \E j \in 1..Len(closed) :
       /\ ~closed[j].result.none
       /\ closed[j].result.session_id = None
       /\ \A k \in closed[j].first..closed[j].last : SessionKey(df[k]) = <<83,49>>

-----------------------------------------------------------------------------
(* Properties of the selector functions (under SpecSel) *)

\* The context-match score of the k-th answer of a list against a question.
ScoreOf(question, answers, k) == cleaner_context_match(question, answers[k].content)

\* The position of the first answer whose score is the maximum over the list.
FirstBest(question, answers) ==
  CHOOSE k \in 1..Len(answers) :
    \A j \in 1..Len(answers) :
      /\ RLeq(ScoreOf(question, answers, j), ScoreOf(question, answers, k))
      /\ j < k => RLess(ScoreOf(question, answers, j), ScoreOf(question, answers, k))

\* C6: for a question and a non-empty list of answers, _find_matching_answer
\* returns the first answer in time order whose context-match score is the
\* maximum, if that maximum is at least 0.3, and no answer otherwise; a session
\* yields a pair with that answer in the first case and no pair in the second.
C6_FirstBestAnswerOverThreshold ==
  /\ (call.fn = "find" /\ call.answers # <<>>) =>
       LET k == FirstBest(call.question, call.answers)
       IN IF RLeq(<<3, 10>>, ScoreOf(call.question, call.answers, k))
          THEN call.result = call.answers[k].content
          ELSE call.result = <<>>
  /\ (call.fn = "merge" /\ session_questions(call.messages) # <<>>
                        /\ session_answers(call.messages) # <<>>) =>
       LET question == _select_representative_question(session_questions(call.messages))
           answers == session_answers(call.messages)
           k == FirstBest(question, answers)
       IN IF RLeq(<<3, 10>>, ScoreOf(question, answers, k))
          THEN ~call.result.none /\ call.result.answer = answers[k].content
          ELSE call.result.none

\* C6 witness: a call of _find_matching_answer in which two answers with
\* different texts share the maximum score, which is at least 0.3.
C6_Witness ==
  /\ call.fn = "find"
  /\ \E i, j \in 1..Len(call.answers) :
       /\ i < j
       /\ call.answers[i].content # call.answers[j].content
       /\ i = FirstBest(call.question, call.answers)
       /\ ScoreOf(call.question, call.answers, j) = ScoreOf(call.question, call.answers, i)
       /\ RLeq(<<3, 10>>, ScoreOf(call.question, call.answers, i))

\* The words of a text that the importance table weighs.
WeightedWords(text) == split(lower(text)) \cap DOMAIN importance_weights

\* The positions of the questions longer than 5 characters.
LongEnough(questions) == {k \in 1..Len(questions) : Len(questions[k].content) > 5}

\* The total similarity of the k-th question against the questions at the
\* positions of V (itself included).
TotalOf(questions, V, k) ==
  LET F[j \in 0..Len(questions)] ==
        IF j = 0 THEN RZero
        ELSE IF j \in V
             THEN RAdd(F[j - 1], cleaner_semantic_similarity(questions[k].content,
                                                             questions[j].content))
             ELSE F[j - 1]
  IN F[Len(questions)]

\* The positions whose total is the maximum.
MaxTotal(questions) ==
  LET V == LongEnough(questions)
  IN {k \in V : \A j \in V : RLeq(TotalOf(questions, V, j), TotalOf(questions, V, k))}

\* C7 (as claimed): among the questions longer than 5 characters the one with
\* the maximum total similarity is selected, the earliest in time order among
\* those that share the maximum.
C7_EarliestOfMaxTotal ==
  (call.fn = "select" /\ LongEnough(call.questions) # {}) =>
    call.result = call.questions[SetMin(MaxTotal(call.questions))].content

\* C7 (amended): among the questions longer than 5 characters the one with the
\* maximum total similarity is selected; among those that share the maximum,
\* the longest, and among the longest of them the earliest in time order.
C7_LongestThenEarliestOfMaxTotal ==
  (call.fn = "select" /\ LongEnough(call.questions) # {}) =>
    LET best == MaxTotal(call.questions)
        longest == {k \in best : \A j \in best :
                      Len(call.questions[j].content) <= Len(call.questions[k].content)}
    IN call.result = call.questions[SetMin(longest)].content

\* C7 witness: a call of _select_representative_question in which two
\* questions of different lengths share the maximum total and the later one
\* is the longer.
C7_Witness ==
  /\ call.fn = "select"
  /\ \E i, j \in MaxTotal(call.questions) :
       /\ i < j
       /\ Len(call.questions[i].content) < Len(call.questions[j].content)


\* The similarity of the k-th question with itself.
SelfTerm(questions, k) ==
  cleaner_semantic_similarity(questions[k].content, questions[k].content)

\* The positions whose total over the other questions is the maximum.
MaxTotalOfOthers(questions) ==
  LET V == LongEnough(questions)
  IN {k \in V : \A j \in V : RLeq(TotalOf(questions, V \ {j}, j),
                                  TotalOf(questions, V \ {k}, k))}

\* The question selected among the positions of a set that share the maximum:
\* the longest, and among the longest the earliest.
SelectedAmong(questions, best) ==
  LET longest == {k \in best : \A j \in best :
                    Len(questions[j].content) <= Len(questions[k].content)}
  IN questions[SetMin(longest)].content

\* C17 (as claimed): the total of a candidate includes its comparison with
\* itself, that self term is the same for every candidate, and the candidates
\* with the maximum total, and so the selected question, are the same as when
\* the totals are summed over the other candidates only.
C17_SelfTermIsFixed ==
  (call.fn = "select" /\ LongEnough(call.questions) # {}) =>
    LET V == LongEnough(call.questions) IN
      /\ \A i, j \in V : SelfTerm(call.questions, i) = SelfTerm(call.questions, j)
      /\ call.result = SelectedAmong(call.questions, MaxTotalOfOthers(call.questions))

\* C17 (amended): the total of a candidate includes its comparison with
\* itself; that self term is 1.0 for a candidate that has a word of the
\* importance table and 0.6 for any other candidate, and the selected question
\* has the maximum of the totals that include it.
C17_SelfTermIsOneOrSixTenths ==
  (call.fn = "select" /\ LongEnough(call.questions) # {}) =>
    LET V == LongEnough(call.questions) IN
      /\ \A k \in V :
           /\ SelfTerm(call.questions, k) =
                IF WeightedWords(call.questions[k].content) # {}
                THEN Rat(1, 1) ELSE Rat(6, 10)
           /\ TotalOf(call.questions, V, k) =
                RAdd(TotalOf(call.questions, V \ {k}, k), SelfTerm(call.questions, k))
      /\ \E k \in MaxTotal(call.questions) : call.result = call.questions[k].content

\* C17 witness: a call of _select_representative_question on candidates with
\* different self terms, in which the selected question is not the one that
\* the totals over the other candidates select.
C17_Witness ==
  /\ call.fn = "select"
  /\ \E i, j \in LongEnough(call.questions) :
       SelfTerm(call.questions, i) # SelfTerm(call.questions, j)
  /\ call.result # SelectedAmong(call.questions, MaxTotalOfOthers(call.questions))

-----------------------------------------------------------------------------
(* Properties of the scoring functions (under SpecScore) *)

\* The sum of the weights of the categories of a set, in tenths.
RECURSIVE WeightOf(_)
WeightOf(tags) ==
  IF tags = {} THEN 0
  ELSE LET tag == CHOOSE t \in tags : TRUE
       IN keyword_weights[tag] + WeightOf(tags \ {tag})

\* The tag-overlap term as a weighted common/union ratio: zero when either
\* side has no tags.
WeightedTagOverlap(question_tags, answer_tags) ==
  IF question_tags = {} \/ answer_tags = {} THEN RZero
  ELSE Rat(WeightOf(question_tags \cap answer_tags), WeightOf(question_tags \cup answer_tags))

\* C11: calculate_context_match(question, answer) is 0.4*T + 0.3*K + 0.3*L,
\* where T is the sum of the weights of the tags common to the question and the
\* answer divided by the sum of the weights of the tags of either, and zero
\* when either has no tags; K is the keyword-category term and L the lexical
\* similarity.
C11_WeightedTagOverlap ==
  call.fn = "context_match" =>
    call.result =
      RAdd(RAdd(RMul(Rat(4, 10), WeightedTagOverlap(extract_tags(call.question),
                                                    extract_tags(call.answer))),
                RMul(Rat(3, 10), keyword_match_score(keyword_categories(call.question),
                                                     keyword_categories(call.answer)))),
           RMul(Rat(3, 10), calculate_semantic_similarity(call.question, call.answer)))

\* The categories that have a keyword in the text in any letter case.
CaseInsensitiveCategories(text) ==
  {category \in DOMAIN context_keywords :
     \E keyword \in context_keywords[category] : Contains(lower(text), lower(keyword))}

\* C13: category detection is case-insensitive and shared between tagging and
\* matching: a category with a keyword in the text in any letter case is
\* reported by extract_tags and is counted by the keyword-category term of
\* calculate_context_match, and the two derive the same categories for a text.
C13_CaseInsensitiveSharedCategories ==
  call.fn = "extract_tags" =>
    /\ \A category \in CaseInsensitiveCategories(call.text) :
         /\ category \in call.result
         /\ category \in keyword_categories(call.text)
    /\ call.result = keyword_categories(call.text)

\* A score that was computed without a division by zero and lies in [0,1].
InUnit(score) == score[2] > 0 /\ 0 <= score[1] /\ score[1] <= score[2]

\* C14: calculate_semantic_similarity and calculate_context_match return a
\* value in [0,1] for every pair of texts, without a division by zero, and a
\* degenerate component contributes 0: the similarity of an empty or blank
\* text is 0, the keyword part is 0 when no word of either text is in the
\* importance table, the tag term is 0 when neither text has a tag and the
\* keyword-category term is 0 when neither text has a category.
C14_TotalAndBounded ==
  /\ call.fn = "semantic_similarity" =>
       /\ InUnit(call.result)
       /\ (split(call.text1) = {} \/ split(call.text2) = {}) => call.result = RZero
       /\ (WeightedWords(call.text1) = {} /\ WeightedWords(call.text2) = {}
           /\ split(call.text1) # {} /\ split(call.text2) # {}) =>
            call.result = RMul(Rat(6, 10), jaccard(split(lower(call.text1)),
                                                   split(lower(call.text2))))
  /\ call.fn = "context_match" =>
       /\ InUnit(call.result)
       /\ (extract_tags(call.question) = {} /\ extract_tags(call.answer) = {}) =>
            call.result =
              RAdd(RMul(Rat(3, 10), keyword_match_score(keyword_categories(call.question),
                                                        keyword_categories(call.answer))),
                   RMul(Rat(3, 10), calculate_semantic_similarity(call.question,
                                                                  call.answer)))
       /\ (keyword_categories(call.question) = {} /\ keyword_categories(call.answer) = {}) =>
            call.result =
              RAdd(RMul(Rat(4, 10), tag_match_score(extract_tags(call.question),
                                                    extract_tags(call.answer))),
                   RMul(Rat(3, 10), calculate_semantic_similarity(call.question,
                                                                  call.answer)))

\* C14 witness: calculate_context_match was called on a blank question and an
\* answer that has words but no tag, no category and no word of the importance
\* table, and returned 0.
C14_Witness ==
  /\ call.fn = "context_match"
  /\ call.question # <<>> /\ split(call.question) = {}
  /\ split(call.answer) # {}
  /\ extract_tags(call.answer) = {} /\ keyword_categories(call.answer) = {}
  /\ WeightedWords(call.answer) = {}
  /\ call.result = RZero

-----------------------------------------------------------------------------
(* Properties of the whole run (under SpecPipeline) *)

\* C12: for the session of four messages of Scenario the run emits exactly one
\* pair: its question is the first, longer customer message, its tags include
\* the ETC category and the payment category, and its answer is the last agent
\* message.
C12_ScenarioYieldsOnePair ==
  (/\ call.fn = "process_chat_records"
   /\ call.raw = Scenario(hasSessionCol)
   /\ required_columns \subseteq call.columns
   /\ pc \in {"done", "returned"}) =>
    /\ Len(qa_pairs) = 1
    /\ qa_pairs[1].question = cleaner_clean_text(RawEtcHelp)
    /\ {"etc_business", "payment"} \subseteq qa_pairs[1].tags
    /\ qa_pairs[1].answer = cleaner_clean_text(RawDone)

\* C15: a frame that lacks a required column or has no rows makes the run
\* raise at the check: the diagnosis, the cleaning and the walk do not run and
\* no output file is written; and no run that has raised has written a file.
C15_AbortBeforeCleaning ==
  /\ (/\ call.fn = "process_chat_records"
      /\ (~(required_columns \subseteq call.columns) \/ call.raw = <<>>)) =>
       /\ pc \in {"check", "raised"}
       /\ ~call.diagnosed /\ ~call.cleaned
       /\ df = <<>> /\ qa_pairs = <<>> /\ closed = <<>>
       /\ call.files = {}
  /\ pc = "raised" => (call.files = {} /\ ~call.cleaned /\ df = <<>> /\ qa_pairs = <<>>)

\* C15 witness: the run has raised on a frame that has every required column
\* and no rows.
C15_Witness ==
  /\ pc = "raised"
  /\ call.raw = <<>>
  /\ required_columns \subseteq call.columns

\* The positions of the rows of a sorted frame whose cleaned content is not a
\* valid message.
InvalidAt(sorted) ==
  {i \in 1..Len(sorted) : ~is_valid_message(cleaner_clean_text(sorted[i].content))}

\* A sequence without its i-th element.
DeleteAt(seq, i) == SubSeq(seq, 1, i - 1) \o SubSeq(seq, i + 1, Len(seq))

\* The contents of the messages of a list.
ContentsOf(messages) == {messages[k].content : k \in 1..Len(messages)}

\* The rows of a sorted frame at the positions outside a set, cleaned.
CleanedExcept(sorted, invalid) ==
  LET F[k \in 0..Len(sorted)] ==
        IF k = 0 THEN <<>>
        ELSE IF k \in invalid THEN F[k - 1]
             ELSE Append(F[k - 1],
                         [sorted[k] EXCEPT !.content = cleaner_clean_text(sorted[k].content),
                                           !.time = standardize_datetime(sorted[k].time)])
  IN F[Len(sorted)]

\* C16: cleaning and validation run on every message before the walk, and a
\* message that is empty after cleaning or fails validation is removed from
\* the stream: the walk reads the rows of the cleaned frame only, which are
\* the cleaned rows of the valid messages in stream order; the frame is the
\* one obtained from the stream without any one of the invalid messages; and
\* no invalid message is recorded as a question or an answer or ends a
\* session.
C16_InvalidMessagesRemovedBeforeWalk ==
  (call.fn = "process_chat_records" /\ call.cleaned) =>
    LET invalid == InvalidAt(call.sorted) IN
      /\ Len(call.sorted) = Len(call.raw)
      /\ call.frame = CleanedExcept(call.sorted, invalid)
      /\ \A i \in 1..Len(call.frame) :
           call.frame[i].content # <<>> /\ is_valid_message(call.frame[i].content)
      /\ \A i \in invalid : _clean_data(DeleteAt(call.sorted, i)) = call.frame
      /\ Len(df) <= Len(call.frame)
      /\ df = SubSeq(call.frame, 1, Len(df))
      /\ \A content \in ContentsOf(current_session_messages) : is_valid_message(content)
      /\ \A j \in 1..Len(closed) :
           /\ \A content \in ContentsOf(closed[j].messages) : is_valid_message(content)
           /\ closed[j].last < Len(call.frame) =>
                SessionKey(call.frame[closed[j].last])
                  # SessionKey(call.frame[closed[j].last + 1])

\* C16 witness: the run has walked a frame from which an invalid message was
\* removed that lay between two valid messages of one session and carried the
\* key of another session, and the two valid messages yielded a pair.
C16_Witness ==
  /\ call.fn = "process_chat_records"
  /\ pc \in {"done", "returned"}
  /\ hasSessionCol
  /\ Len(qa_pairs) = 1
  /\ Len(closed) = 1
  /\ \E i \in InvalidAt(call.sorted) :
       /\ 1 < i /\ i < Len(call.sorted)
       /\ {i - 1, i + 1} \cap InvalidAt(call.sorted) = {}
       /\ call.sorted[i - 1].key = call.sorted[i + 1].key
       /\ call.sorted[i].key # call.sorted[i - 1].key
=============================================================================
